---- MODULE Spec2Model ----
(***************************************************************************)
(* Model of src/algo/skiplist.rs: an append-only skip list keyed by a u64  *)
(* offset.  The Rc<RefCell<Node>> heap is an arena: `nodes` is the         *)
(* sequence of every Node ever allocated, in allocation order, and a Link  *)
(* is 0 (None) or the index of a node in the arena (Some).  Levels are     *)
(* 0-based as in the source, so the source's next[i] is next[i + 1] here.  *)
(***************************************************************************)
EXTENDS Integers, Sequences, FiniteSets

\* ---- bounds of the exploration ----
MaxLevel == 2        \* new(level) is called with level in 0..MaxLevel
MaxLen == 3          \* at most MaxLen appends
MaxOffset == 3       \* find is asked for, and the in-order caller appends, 0..MaxOffset
MaxData == 2         \* the in-order caller's payloads are 1..MaxData
MaxAnyOffset == 1    \* the caller that ignores the order appends 0..MaxAnyOffset
MaxAnyData == 1      \* and its payloads are 1..MaxAnyData

\* ---- program constants ----
\* usize arithmetic wraps modulo 2^UsizeBits.  TLC integers are 32 bits
\* wide, so the word is narrowed to 16 bits; what the code depends on is kept:
\* 0 - 1 = usize::MAX, usize::MAX + 1 = 0, and usize::MAX exceeds every Vec length.
UsizeBits == 16
UsizeMod == 2 ^ UsizeBits

Offsets == 0 .. MaxOffset
AnyOffsets == 0 .. MaxAnyOffset
DataSet == 1 .. MaxData
AnyDataSet == 1 .. MaxAnyData

VARIABLES
    pc,             \* "init" before new, "ready" with a SkipList value, "panicked"
    head,           \* SkipList.head : Link
    tails,          \* SkipList.tails : Vec<Link>
    max_level_idx,  \* SkipList.max_level_idx : usize
    length,         \* SkipList.length : u64
    nodes,          \* the heap of Node values, in allocation order
    ret             \* what the most recent call returned

vars == <<pc, head, tails, max_level_idx, length, nodes, ret>>
list == <<head, tails, max_level_idx, length, nodes>>

None == 0
Panic == -1

\* What a call returned: the call, its offset argument and the outcome.  new and
\* append return (); find returns None or Some((data, level)); any of them may
\* panic.
NoCall == [call |-> "none", kind |-> "Unit", off |-> -1, data |-> 0, level |-> -1]
Unit(c, o) == [call |-> c, kind |-> "Unit", off |-> o, data |-> 0, level |-> -1]
Panicked(c, o) == [call |-> c, kind |-> "Panic", off |-> o, data |-> 0, level |-> -1]
NotFound(o) == [call |-> "find", kind |-> "None", off |-> o, data |-> 0, level |-> -1]
Found(o, d, l) == [call |-> "find", kind |-> "Some", off |-> o, data |-> d, level |-> l]

Min(a, b) == IF a < b THEN a ELSE b

\* vec![None; n]
NoneVec(n) == [i \in 1 .. n |-> None]

\* Node stamped with the length after the increment instead of before it.
NodePosAfter(next, offset, data, pos) ==
    [next |-> next, offset |-> offset, data |-> data, pos |-> pos + 1]

\* Node::new(next, offset, data, pos)
Node(next, offset, data, pos) ==
    [next |-> next, offset |-> offset, data |-> data, pos |-> pos]

Init ==
    /\ pc = "init"
    /\ head = None
    /\ tails = << >>
    /\ max_level_idx = 0
    /\ length = 0
    /\ nodes = << >>
    /\ ret = NoCall

\* SkipList::new(level).  `level - 1` on usize: with level = 0 it panics when
\* the build has overflow checks and wraps to usize::MAX when it has not.
new(level) ==
    /\ pc = "init"
    /\ UNCHANGED nodes
    /\ \/ /\ level >= 1
          /\ pc' = "ready"
          /\ ret' = Unit("new", -1)
          /\ head' = None
          /\ tails' = NoneVec(level)
          /\ max_level_idx' = level - 1
          /\ length' = 0
       \/ /\ level = 0
          /\ pc' = "panicked"
          /\ ret' = Panicked("new", -1)
          /\ UNCHANGED <<head, tails, max_level_idx, length>>
       \/ /\ level = 0
          /\ pc' = "ready"
          /\ ret' = Unit("new", -1)
          /\ head' = None
          /\ tails' = NoneVec(0)
          /\ max_level_idx' = (level - 1) % UsizeMod
          /\ length' = 0

\* SkipList::get_level: the values the coin flips can produce.  The loop stops
\* at max_level_idx; a list built by new(0) without overflow checks has
\* max_level_idx = usize::MAX, where the exploration stops at MaxLevel flips.
get_level == 0 .. Min(max_level_idx, MaxLevel)

\* The previous tail is linked only when its offset is below the new node's.
LinkOldIfOrdered(ns, tl, i, node) ==
    IF tl[i + 1] # None /\ ns[tl[i + 1]].offset < ns[node].offset
    THEN [ns EXCEPT ![tl[i + 1]].next[i + 1] = node]
    ELSE ns

\* The loop body of append at level i (0-based) for the new node:
\* tails[i].take(), old.next[i] = Some(node), tails[i] = Some(node).
LinkOld(ns, tl, i, node) ==
    IF tl[i + 1] # None
    THEN [ns EXCEPT ![tl[i + 1]].next[i + 1] = node]
    ELSE ns

\* Only level 0 is linked, whatever the node's slot count.
LinkLevelsBottomOnly(ns, tl, k, node) ==
    IF k = 0 \/ tl[1] = None THEN ns
    ELSE [ns EXCEPT ![tl[1]].next[1] = node]

\* for i in 0..level: the nodes after the first k iterations.
RECURSIVE LinkLevels(_, _, _, _)
LinkLevels(ns, tl, k, node) ==
    IF k = 0 THEN ns
    ELSE LinkOld(LinkLevels(ns, tl, k - 1, node), tl, k - 1, node)

\* tails[i] is set only while it is empty, so it stays at the first node.
TailsAfterKeepFirst(tl, k, node) ==
    [i \in 1 .. Len(tl) |-> IF i <= k /\ tl[i] = None THEN node ELSE tl[i]]

\* for i in 0..level: the tails after the first k iterations.
TailsAfter(tl, k, node) ==
    [i \in 1 .. Len(tl) |-> IF i <= k THEN node ELSE tl[i]]

\* An iteration of the loop indexes out of range: tails[i] with i >= tails.len(),
\* or old.next[i] with i >= old.next.len().
AppendIndexPanics(level) ==
    \/ level > Len(tails)
    \/ \E i \in 0 .. level - 1 :
          /\ tails[i + 1] # None
          /\ i + 1 > Len(nodes[tails[i + 1]].next)

\* The first record draws its level from the coin flips like any other.
ChooseLevelNoSentinel(flips) == (1 + flips) % UsizeMod

\* append, lines 56-60: the number of forward-link slots of the new node.
ChooseLevel(flips) ==
    (1 + (IF head = None THEN max_level_idx ELSE flips)) % UsizeMod

\* append, lines 70-72: head after the append of `node`.
NewHead(node) == IF head = None THEN node ELSE head

\* SkipList::append(offset, data) with the coin flips giving `flips`.
append(offset, data, flips) ==
    /\ pc = "ready"
    /\ length < MaxLen
    /\ flips \in get_level
    /\ LET level == ChooseLevel(flips)
           node == Len(nodes) + 1
           alloc == Append(nodes, Node(NoneVec(level), offset, data, length))
       IN  IF AppendIndexPanics(level)
           THEN /\ pc' = "panicked"
                /\ ret' = Panicked("append", offset)
                /\ UNCHANGED <<head, tails, max_level_idx, length, nodes>>
           ELSE /\ nodes' = LinkLevels(alloc, tails, level, node)
                /\ tails' = TailsAfter(tails, level, node)
                /\ head' = NewHead(node)
                /\ length' = length + 1
                /\ ret' = Unit("append", offset)
                /\ UNCHANGED <<pc, max_level_idx>>

\* find, lines 143-148: walk down from level l until head has a populated
\* forward link.  next[start_level] out of range panics; `start_level -= 1`
\* at 0 panics with overflow checks and otherwise wraps to usize::MAX, where
\* the next index is out of range: a panic in either build.
RECURSIVE StartLevel(_, _)
StartLevel(n, l) ==
    IF l + 1 > Len(nodes[n].next) THEN Panic
    ELSE IF nodes[n].next[l + 1] # None THEN l
    ELSE IF l = 0 THEN Panic
    ELSE StartLevel(n, l - 1)

\* find, lines 151-163: follow the forward links of `level` from n while the
\* next node's offset is <= offset.
RECURSIVE Walk(_, _, _)
Walk(n, level, offset) ==
    IF level + 1 > Len(nodes[n].next) THEN Panic
    ELSE LET tmp == nodes[n].next[level + 1]
         IN  IF tmp # None /\ nodes[tmp].offset <= offset
             THEN Walk(tmp, level, offset)
             ELSE n

\* The descent compares offsets only at level 0.
RECURSIVE DescendToBottom(_, _, _)
DescendToBottom(n, level, offset) ==
    LET m == Walk(n, level, offset)
    IN  IF m = Panic THEN Panicked("find", offset)
        ELSE IF level > 0 THEN DescendToBottom(m, level - 1, offset)
        ELSE IF nodes[m].offset = offset THEN Found(offset, nodes[m].data, level)
        ELSE NotFound(offset)

\* find, lines 150-169: for level in (0..=start_level).rev()
RECURSIVE Descend(_, _, _)
Descend(n, level, offset) ==
    LET m == Walk(n, level, offset)
    IN  IF m = Panic THEN Panicked("find", offset)
        ELSE IF nodes[m].offset = offset THEN Found(offset, nodes[m].data, level)
        ELSE IF level = 0 THEN NotFound(offset)
        ELSE Descend(m, level - 1, offset)

\* The value find(offset) returns on the current list.
FindResult(offset) ==
    IF head = None THEN NotFound(offset)
    ELSE LET start_level == StartLevel(head, max_level_idx)
         IN  IF start_level = Panic THEN Panicked("find", offset)
             ELSE Descend(head, start_level, offset)

\* find takes the head link out of the list (head.take()) to start from it.
find_take(offset) ==
    /\ pc = "ready"
    /\ LET r == FindResult(offset)
       IN  /\ ret' = r
           /\ pc' = IF r.kind = "Panic" THEN "panicked" ELSE pc
    /\ head' = None
    /\ UNCHANGED <<tails, max_level_idx, length, nodes>>

\* SkipList::find(offset): takes &self, so the list is left as it is.
find(offset) ==
    /\ pc = "ready"
    /\ LET r == FindResult(offset)
       IN  /\ ret' = r
           /\ pc' = IF r.kind = "Panic" THEN "panicked" ELSE pc
    /\ UNCHANGED list

\* The caller keeps offsets strictly increasing.
LastOffset == IF nodes = << >> THEN -1 ELSE nodes[Len(nodes)].offset
AppendInOrder(offset, data, flips) ==
    /\ offset > LastOffset
    /\ append(offset, data, flips)

Next ==
    \/ \E level \in 0 .. MaxLevel : new(level)
    \/ \E o \in AnyOffsets, d \in AnyDataSet, f \in 0 .. MaxLevel : append(o, d, f)
    \/ \E o \in Offsets : find(o)

NextInOrder ==
    \/ \E level \in 0 .. MaxLevel : new(level)
    \/ \E o \in Offsets, d \in DataSet, f \in 0 .. MaxLevel : AppendInOrder(o, d, f)
    \/ \E o \in Offsets : find(o)

Spec == Init /\ [][Next]_vars
SpecInOrder == Init /\ [][NextInOrder]_vars

\* ---- vocabulary of the properties ----

\* The level argument new was called with (tails has one slot per level).
max_level == Len(tails)

\* Node r has a forward-link slot at level L.
HasSlot(r, L) == L + 1 <= Len(nodes[r].next)

\* Offsets were appended in strictly increasing order.
InOrder ==
    \A i, j \in 1 .. Len(nodes) : i < j => nodes[i].offset < nodes[j].offset

\* The nodes met from n by following the forward links of level L, at most
\* `fuel` of them.
RECURSIVE ChainFrom(_, _, _)
ChainFrom(n, L, fuel) ==
    IF n = None \/ fuel = 0 THEN << >>
    ELSE <<n>> \o ChainFrom(IF HasSlot(n, L) THEN nodes[n].next[L + 1] ELSE None,
                            L, fuel - 1)

\* The chain of level L from head; a cycle shows as more than Len(nodes) nodes.
Chain(L) == ChainFrom(head, L, Len(nodes) + 1)

Range(s) == {s[i] : i \in 1 .. Len(s)}

\* s is a subsequence of t.
RECURSIVE IsSubseq(_, _)
IsSubseq(s, t) ==
    IF s = << >> THEN TRUE
    ELSE IF t = << >> THEN FALSE
    ELSE IF Head(s) = Head(t) THEN IsSubseq(Tail(s), Tail(t))
    ELSE IsSubseq(s, Tail(t))

\* The nodes holding offset o.
Holding(o) == {r \in 1 .. Len(nodes) : nodes[r].offset = o}

\* The nodes appended after r that have a slot at level L.
LaterAt(r, L) == {q \in 1 .. Len(nodes) : q > r /\ HasSlot(q, L)}

SetMin(S) == CHOOSE x \in S : \A y \in S : x <= y
SetMax(S) == CHOOSE x \in S : \A y \in S : x >= y

\* ---- C1 ----
\* C1: on a list built by new(max_level >= 1) and appends of strictly increasing
\* offsets, find(o) returns the data appended with o for every appended o (the
\* list of one record included) and not-found for every o never appended.
C1_FindReturnsAppended ==
    (ret.call = "find" /\ max_level >= 1 /\ InOrder) =>
        IF Holding(ret.off) # {}
        THEN ret.kind = "Some" /\ \A r \in Holding(ret.off) : ret.data = nodes[r].data
        ELSE ret.kind = "None"

\* ---- C2 ----
\* C2: on a list built by new(max_level >= 1), every append and every find
\* returns normally: no call panics.
C2_NoPanic == max_level >= 1 => pc # "panicked"

\* ---- C3 ----
\* C3: new(0) is rejected at construction: there is never a SkipList value
\* with zero levels on which append or find can be called.
C3_NewZeroRejected == pc = "ready" => max_level >= 1

\* ---- C4 ----
\* C4: with strictly increasing offsets, the chain of every level from head is
\* acyclic, has at most n nodes, has strictly increasing offsets and is a
\* subsequence of the level-0 chain, which holds all n nodes in append order.
C4_Chains ==
    (max_level >= 1 /\ InOrder) =>
        /\ Chain(0) = [i \in 1 .. Len(nodes) |-> i]
        /\ \A L \in 0 .. max_level - 1 :
              LET c == Chain(L)
              IN  /\ Len(c) <= Len(nodes)
                  /\ \A i, j \in 1 .. Len(c) :
                        i < j => /\ c[i] # c[j]
                                 /\ nodes[c[i]].offset < nodes[c[j]].offset
                  /\ IsSubseq(c, Chain(0))

\* Three records in order, the middle one skipped by the level-1 chain.
C4_Witness ==
    /\ max_level >= 2
    /\ InOrder
    /\ Len(nodes) = 3
    /\ Chain(1) = <<1, 3>>
    /\ Chain(0) = <<1, 2, 3>>

\* ---- C5 ----
\* C5: a find step leaves head, tails, max_level_idx, length and every node as
\* they were, and the value find returned for an offset is the value find
\* returns for it on the list as it is after the call, so repeating the call,
\* with finds of other offsets in between, gives the same result.
C5_FindReadOnly ==
    /\ [][ret'.call = "find" => UNCHANGED list]_vars
    /\ [](ret.call = "find" => ret = FindResult(ret.off))

\* find returned a record of a list of at least two records.
C5_Witness ==
    /\ ret.call = "find"
    /\ ret.kind = "Some"
    /\ length >= 2
    /\ pc = "ready"

\* ---- C6 ----
\* C6: an append of an offset smaller than one already appended returns
\* normally and links the new node as any append does: it becomes the tail of
\* each of its levels and the forward link of each previous tail.
C6_UncheckedOrder ==
    [][(/\ ret'.call = "append"
        /\ pc = "ready"
        /\ max_level >= 1
        /\ \E r \in 1 .. Len(nodes) : nodes[r].offset > ret'.off) =>
          /\ ret'.kind = "Unit"
          /\ pc' = "ready"
          /\ length' = length + 1
          /\ Len(nodes') = Len(nodes) + 1
          /\ LET node == Len(nodes) + 1
                 k == Len(nodes'[node].next)
             IN  /\ nodes'[node].offset = ret'.off
                 /\ k \in 1 .. max_level
                 /\ \A i \in 1 .. k :
                       /\ tails'[i] = node
                       /\ nodes'[node].next[i] = None
                       /\ tails[i] # None => nodes'[tails[i]].next[i] = node]_vars

\* After an out-of-order append, find misses an offset that was appended.
C6_Witness ==
    /\ ~InOrder
    /\ max_level >= 1
    /\ ret.call = "find"
    /\ ret.kind = "None"
    /\ Holding(ret.off) # {}

\* ---- C7 ----
\* C7: at every level L, the forward link of a node with a slot at L is the
\* next node in append order with a slot at L, it is empty exactly when the
\* node is tails[L], and tails[L] is the last appended node with a slot at L.
C7_Links ==
    max_level >= 1 =>
        \A L \in 0 .. max_level - 1 :
            LET at == {q \in 1 .. Len(nodes) : HasSlot(q, L)}
            IN  /\ tails[L + 1] = IF at = {} THEN None ELSE SetMax(at)
                /\ \A r \in at :
                      /\ nodes[r].next[L + 1] =
                            IF LaterAt(r, L) = {} THEN None ELSE SetMin(LaterAt(r, L))
                      /\ (nodes[r].next[L + 1] = None) <=> (tails[L + 1] = r)

\* Offsets out of order; the level-1 link of head skips the second record.
C7_Witness ==
    /\ max_level >= 2
    /\ ~InOrder
    /\ Len(nodes) = 3
    /\ ~HasSlot(2, 1)
    /\ nodes[1].next[2] = 3
    /\ tails = <<3, 3>>

\* ---- C8 ----
\* C8: the first record has exactly max_level slots and is head from then on;
\* every later record has between 1 and max_level slots; the nodes of each
\* level's chain are those with a slot at that level, are among the nodes of
\* the level below, and start with head.
C8_Levels ==
    (max_level >= 1 /\ Len(nodes) >= 1) =>
        /\ head = 1
        /\ nodes[head].pos = 0
        /\ Len(nodes[head].next) = max_level
        /\ \A r \in 2 .. Len(nodes) : Len(nodes[r].next) \in 1 .. max_level
        /\ \A L \in 0 .. max_level - 1 :
              /\ Chain(L)[1] = head
              /\ Range(Chain(L)) = {q \in 1 .. Len(nodes) : HasSlot(q, L)}
              /\ L >= 1 => Range(Chain(L)) \subseteq Range(Chain(L - 1))

\* A two-level list whose later records have one and two slots.
C8_Witness ==
    /\ max_level = 2
    /\ Len(nodes) = 3
    /\ Len(nodes[2].next) = 1
    /\ Len(nodes[3].next) = 2
    /\ head = 1

\* ---- C9 ----
\* C9: an append that returns adds one node whose position is the length
\* before; it leaves the offset, data, position and slot count of every
\* existing node alone; a forward link it changes was empty, belongs to the
\* tail of a level below the new node's slot count, and now points to the new
\* node; length grows by one.
C9_AppendFrame ==
    [][(ret'.call = "append" /\ ret'.kind = "Unit") =>
          /\ length' = length + 1
          /\ Len(nodes') = Len(nodes) + 1
          /\ LET node == Len(nodes) + 1
                 k == Len(nodes'[node].next)
             IN  /\ nodes'[node].pos = length
                 /\ \A r \in 1 .. Len(nodes) :
                       /\ nodes'[r].offset = nodes[r].offset
                       /\ nodes'[r].data = nodes[r].data
                       /\ nodes'[r].pos = nodes[r].pos
                       /\ Len(nodes'[r].next) = Len(nodes[r].next)
                       /\ \A i \in 1 .. Len(nodes[r].next) :
                             nodes'[r].next[i] # nodes[r].next[i] =>
                                 /\ nodes[r].next[i] = None
                                 /\ nodes'[r].next[i] = node
                                 /\ tails[i] = r
                                 /\ i <= k
                 /\ \A i \in 1 .. k :
                       tails[i] # None =>
                           /\ nodes[tails[i]].next[i] = None
                           /\ nodes'[tails[i]].next[i] = node]_vars

\* The third append filled head's level-1 link and the second record's
\* level-0 link.
C9_Witness ==
    /\ ret.call = "append"
    /\ ret.kind = "Unit"
    /\ pc = "ready"
    /\ Len(nodes) = 3
    /\ nodes[1].next = <<2, 3>>
    /\ nodes[2].next = <<3>>

\* ---- C10 ----
\* C10: with strictly increasing offsets, when find returns (data, level_found)
\* the level is in 0..max_level-1; for a record other than head it is the
\* record's top level; for head it is the highest level at which head has a
\* populated forward link, the largest top level among the later records.
C10_LevelFound ==
    (ret.call = "find" /\ ret.kind = "Some" /\ max_level >= 1 /\ InOrder) =>
        /\ ret.level \in 0 .. max_level - 1
        /\ \A r \in Holding(ret.off) :
              IF r # head
              THEN ret.level = Len(nodes[r].next) - 1
              ELSE /\ ret.level = SetMax({L \in 0 .. max_level - 1 :
                                             nodes[head].next[L + 1] # None})
                   /\ ret.level = SetMax({Len(nodes[q].next) - 1 :
                                             q \in 2 .. Len(nodes)})

\* find returned the third record at level 1, past a one-slot second record.
C10_Witness ==
    /\ ret.call = "find"
    /\ ret.kind = "Some"
    /\ InOrder
    /\ Len(nodes) = 3
    /\ Len(nodes[2].next) = 1
    /\ ret.off = nodes[3].offset
    /\ ret.level = 1
====
